---- MODULE Spec2Model ----
(***************************************************************************)
(* Model of the db-fork micro-benchmark driver: the branch-tree builder,   *)
(* the breadth-first branch/insert traversal of BenchmarkSuite, the unique *)
(* row insertion of DatabaseTask and the Dolt / Neon backend adapters.     *)
(*                                                                         *)
(* Modelling conventions.                                                  *)
(*  - Every function body is translated as written.  Calls are resolved to *)
(*    the function that plays the called role: db_task.create_branch of    *)
(*    runner.py:332 is DatabaseTask.create_branch of tasks.py:49, which    *)
(*    calls the adapter's create_db_branch.  tasks.py:49 has no parent_id  *)
(*    parameter and forwards none, so the adapter always sees its default  *)
(*    parent_id = None.                                                    *)
(*  - A Python result is one of "True", "None" or "raise".                 *)
(*  - A branch or node name branch_d{d}_n{k} is the pair <<d, k>>; the     *)
(*    root branch name is <<0, 0>>.                                        *)
(*  - One table (the insert table) with primary keys drawn from Keys.      *)
(***************************************************************************)
EXTENDS Integers, Sequences, FiniteSets, TLC

\* ------------------------------------------------------------------ bounds
MaxDepth == 2
MaxDegree == 2
MaxInserts == 2
MaxKey == 3
MaxSamples == 3
MaxResets == 2
MaxCap == 2
RateDen == 2
DistDen == 2
MaxField == 2
MaxPop == 3
MaxSorts == 2
MaxLoads == 4
MaxColumns == 4
LoopMaxNodes == 7
LoopMaxDegree == 2
UpdateMaxCap == 1
ReadMaxDepth == 1
ReadMaxDegree == 1

\* ------------------------------------------------------- program constants
RetryFactor == 5
MaxColsPerUpdate == 3

Keys == 1..MaxKey
Backends == {"dolt", "neon"}
Workloads == {"branch_insert", "insert_only"}
RootName == <<0, 0>>

VARIABLES
    backend,            \* BenchmarkSuite.backend
    workload,           \* the workload method that is run
    tree_depth,         \* branch_insert_op argument
    degree,             \* branch_insert_op argument
    insert_per_branch,  \* branch_insert_op / insert_bench argument (num_rows)
    pc,                 \* position of the running workload
    tree,               \* nodes of the built tree, in creation order
    total_branches,     \* count returned by build_branch_tree
    current_level_nodes,\* the traversal queue (indices into tree)
    qi,                 \* position of "for node in current_level_nodes"
    ci,                 \* position of "for child in node.children"
    current_visited,    \* runner.py:313
    conn,               \* branch the connection is on
    branches,           \* branches that exist in the backend
    fork_of,            \* branch -> branch it was forked from
    rows,               \* branch -> keys of the rows of the insert table
    pks_loaded,         \* table_name in self.all_pks
    datagen_loaded,     \* table_name in self.all_datagen
    conn_open,          \* db_tools.conn is an open connection
    all_pks,            \* self.all_pks[table_name]
    attempts,           \* iterations of the generation loop of this insert
    inserted_count,     \* tasks.py:176
    obs,                \* observations of what the run has done so far
    timer,              \* the Timer shared by the cursors and the connection
    tobs,               \* observations of the use of the Timer
    sampling_rate,      \* numerator of the sampling rate over RateDen
    max_sample_size,    \* cap on the number of sampled keys
    updatable_columns,  \* number of non-key columns of the table
    sort_idx,           \* index of the key column the population is sorted by
    pk_list,            \* tasks.py:135 / 229, the sorted population
    skewed_indices,     \* tasks.py:139 / 233
    ri                  \* position of "for idx in skewed_indices"

config == <<backend, workload, tree_depth, degree, insert_per_branch,
            sampling_rate, max_sample_size, updatable_columns, sort_idx>>
readloop == <<pk_list, skewed_indices, ri>>
travers == <<tree, total_branches, current_level_nodes, qi, ci, current_visited>>
store == <<conn, branches, fork_of, rows>>
cache == <<pks_loaded, all_pks, datagen_loaded>>
insloop == <<attempts, inserted_count>>
recorder == <<timer, tobs>>
vars == <<config, conn_open, pc, travers, store, cache, insloop, obs, recorder,
          readloop>>

\* ------------------------------------------------------ build_branch_tree
branch_name_zero_based(d, idx, deg, i) == <<d + 1, idx * deg + i>>

branch_name_per_parent(d, idx, deg, i) == <<d + 1, i + 1>>

branch_name(d, idx, deg, i) == <<d + 1, idx * deg + i + 1>>

count_child_twice(total) == total + 2

count_child_never(total) == total

count_child(total) == total + 1

RECURSIVE count_children(_, _)
count_children(total, k) ==
    IF k = 0 THEN total ELSE count_children(count_child(total), k - 1)

\* the nodes appended to next_level_nodes by one pass over current_level_nodes
level_children(cur, d, deg) ==
    [j \in 1..(Len(cur) * deg) |->
        LET idx == (j - 1) \div deg
            i == (j - 1) % deg
        IN [name |-> branch_name(d, idx, deg, i), parent |-> cur[idx + 1]]]

RECURSIVE build_levels(_, _, _, _, _, _)
build_levels(d, depth, deg, cur, nodes, total) ==
    IF d >= depth
    THEN [nodes |-> nodes, total |-> total]
    ELSE LET kids == level_children(cur, d, deg)
             next == [j \in 1..Len(kids) |-> Len(nodes) + j]
         IN build_levels(d + 1, depth, deg, next, nodes \o kids,
                         count_children(total, Len(kids)))

build_branch_tree(root_branch, depth, deg) ==
    build_levels(0, depth, deg, <<1>>,
                 <<[name |-> root_branch, parent |-> 0]>>, 1)

RECURSIVE sorted_seq(_)
sorted_seq(S) ==
    IF S = {} THEN <<>>
    ELSE LET m == CHOOSE x \in S : \A y \in S : x <= y
         IN <<m>> \o sorted_seq(S \ {m})

children_of_next(t, p) == sorted_seq({i \in 1..Len(t) : t[i].parent = p + 1})

\* node.children: the nodes attached to p, in attachment order
children(t, p) == sorted_seq({i \in 1..Len(t) : t[i].parent = p})

\* ---------------------------------------------------------------- adapters
\* Result of the adapter's create_db_branch.  exec_ok: the backend performs
\* the creation (dolt_checkout -b, neon.branch_create), otherwise the call
\* raises.  commit_ok: the conn.commit() that ends the Dolt creation
\* succeeds; it is not guarded, so its failure raises as well.
create_db_branch(be, exec_ok, commit_ok) ==
    IF ~exec_ok THEN "raise"
    ELSE IF be = "dolt" THEN (IF commit_ok THEN "True" ELSE "raise")
    ELSE "None"

\* DatabaseTask.create_branch: calls the adapter and returns nothing.
create_branch(be, exec_ok, commit_ok) ==
    IF create_db_branch(be, exec_ok, commit_ok) = "raise" THEN "raise"
    ELSE "None"

truthy_unless_raised(v) == v # "raise"

\* Python truth value of the result tested by "if success:"
truthy(v) == v = "True"

\* Branch a new branch is forked from.  Dolt: "dolt_checkout -b" forks the
\* branch the connection is on.  Neon: parent_id is None, the project's
\* default (root) branch.
fork_source(be, cur) == IF be = "dolt" THEN cur ELSE RootName

\* Branch the connection is on after a successful creation: dolt_checkout -b
\* switches to the new branch, Neon leaves the connection alone.
conn_after_create(be, cur, new) == IF be = "dolt" THEN new ELSE cur

\* ------------------------------------------------------------ dblib.timer
\* Tags used by the timed cursor, the timed connection and the Neon adapter;
\* "" is the default argument (no tag).
Tags == {"", "execute", "fetchall", "commit", "neon_branching"}
Paths == {"cursor", "connection"}

EmptyDict == [t \in {} |-> <<>>]

reset_keep_tags(tm) ==
    [each_cursor_elapsed |-> <<>>,
     cursor_elapsed_by_tag |-> tm.cursor_elapsed_by_tag,
     each_connection_elapsed |-> <<>>,
     connection_elapsed_by_tag |-> tm.connection_elapsed_by_tag]

\* Timer.reset (also the state after Timer.__init__)
reset(tm) ==
    [each_cursor_elapsed |-> <<>>,
     cursor_elapsed_by_tag |-> EmptyDict,
     each_connection_elapsed |-> <<>>,
     connection_elapsed_by_tag |-> EmptyDict]

\* by_tag[tag].append(duration), creating the bucket when it is missing
append_tagged(by_tag, duration, tag) ==
    IF tag \in DOMAIN by_tag
    THEN [by_tag EXCEPT ![tag] = Append(@, duration)]
    ELSE by_tag @@ (tag :> <<duration>>)

collect_cursor_tagged_only(tm, duration, tag) ==
    IF tag # ""
    THEN [tm EXCEPT !.cursor_elapsed_by_tag = append_tagged(@, duration, tag)]
    ELSE [tm EXCEPT !.each_cursor_elapsed = Append(@, duration)]

\* Timer.collect_cursor_elapsed
collect_cursor_elapsed(tm, duration, tag) ==
    [tm EXCEPT
       !.each_cursor_elapsed = Append(@, duration),
       !.cursor_elapsed_by_tag =
          IF tag # "" THEN append_tagged(@, duration, tag) ELSE @]

\* Timer.collect_connection_elapsed
collect_connection_elapsed(tm, duration, tag) ==
    [tm EXCEPT
       !.each_connection_elapsed = Append(@, duration),
       !.connection_elapsed_by_tag =
          IF tag # "" THEN append_tagged(@, duration, tag) ELSE @]

report_cursor_setdefault(tm, tag) ==
    IF tag # ""
    THEN IF tag \in DOMAIN tm.cursor_elapsed_by_tag
         THEN [timer |-> tm, value |-> tm.cursor_elapsed_by_tag[tag]]
         ELSE [timer |-> [tm EXCEPT !.cursor_elapsed_by_tag =
                                       @ @@ (tag :> <<>>)],
               value |-> <<>>]
    ELSE [timer |-> tm, value |-> tm.each_cursor_elapsed]

\* Timer.report_cursor_elapsed: the returned list and the Timer afterwards
report_cursor_elapsed(tm, tag) ==
    [timer |-> tm,
     value |-> IF tag # ""
               THEN IF tag \in DOMAIN tm.cursor_elapsed_by_tag
                    THEN tm.cursor_elapsed_by_tag[tag] ELSE <<>>
               ELSE tm.each_cursor_elapsed]

\* Timer.report_connection_elapsed: the returned list and the Timer afterwards
report_connection_elapsed(tm, tag) ==
    [timer |-> tm,
     value |-> IF tag # ""
               THEN IF tag \in DOMAIN tm.connection_elapsed_by_tag
                    THEN tm.connection_elapsed_by_tag[tag] ELSE <<>>
               ELSE tm.each_connection_elapsed]

\* get_average of an empty list is 0.0; the mean is not needed otherwise
average_is_zero(times) == times = <<>>

\* The durations in a log of collect calls that were collected after the
\* call numbered since, on one path and under one tag
RECURSIVE collected_by(_, _, _, _)
collected_by(log, path, tag, since) ==
    IF log = <<>> THEN <<>>
    ELSE LET e == Head(log)
             rest == collected_by(Tail(log), path, tag, since)
         IN IF e.path = path /\ e.tag = tag /\ e.d > since
            THEN <<e.d>> \o rest ELSE rest

NoReport == [path |-> "none", tag |-> "", value |-> <<>>]

\* One collect call on the recorder state st = [timer, tobs].  The duration
\* is the number of the call, so that every sample can be told apart.
collect(st, path, tag) ==
    LET d == st.tobs.tick + 1
    IN [timer |-> IF path = "cursor"
                  THEN collect_cursor_elapsed(st.timer, d, tag)
                  ELSE collect_connection_elapsed(st.timer, d, tag),
        tobs |-> [st.tobs EXCEPT
                    !.tick = d,
                    !.last = NoReport,
                    !.log = Append(@, [path |-> path, tag |-> tag, d |-> d])]]

report(tm, path, tag) ==
    IF path = "cursor" THEN report_cursor_elapsed(tm, tag)
    ELSE report_connection_elapsed(tm, tag)

\* Timer.__init__: the four containers, empty
Timer0 ==
    [each_cursor_elapsed |-> <<>>,
     cursor_elapsed_by_tag |-> EmptyDict,
     each_connection_elapsed |-> <<>>,
     connection_elapsed_by_tag |-> EmptyDict]

TObs0 ==
    [tick |-> 0,            \* collect calls made so far
     log |-> <<>>,          \* collect calls since the last reset
     reset_tick |-> 0,      \* value of tick at the last reset
     resets |-> 0,          \* reset calls
     last |-> NoReport,     \* the last report call and what it returned
     before |-> Timer0]     \* the Timer before the last report call

\* ------------------------------------------------------------------- Init
Obs0 ==
    [visit_order |-> <<>>,      \* nodes for which runner.py:325 ran
     connects |-> <<>>,         \* nodes connected by runner.py:318
     requested |-> <<>>,        \* create_branch calls: child, visited node,
                                \* backend verdict, value bound to "success"
     created |-> {},            \* children whose creation the backend accepted
     scanned |-> {},            \* keys returned by the initial key scan
     write_log |-> <<>>,        \* row writes executed: key, node, branch,
                                \* was the key in all_pks when accepted
     gen_total |-> 0,           \* generate_row calls of the run
     late_gen |-> 0,            \* generate_row calls made with num_rows
                                \* rows already accepted
     insert_calls |-> 0,        \* insert invocations
     key_scans |-> 0,           \* key scans sent to the backend
     ddl_fetches |-> 0,         \* DDL fetches sent to the backend
     loads |-> <<>>,            \* one record per cache load call
     final_lines |-> <<>>,      \* the lines printed by runner.py:337-340
     exits |-> <<>>,            \* one record per __exit__ of the suite
     commits |-> 0,             \* commit_changes calls made by insert
     batch_tick |-> 0,          \* collect calls made when the insert began
     batches |-> <<>>,          \* per completed insert: timed, rows, samples
     commit_failures |-> 0,     \* commit_changes calls in which a step failed
     warnings |-> 0,            \* shortfall warnings printed
     insert_returns |-> 0,      \* insert invocations that returned
     setup_tick |-> 0,          \* collect calls made when the setup ended
     reports |-> 0,             \* aggregated reports produced
     reported |-> <<>>,         \* the lists read from the Timer for a report
     sorts |-> <<>>,            \* sort_population calls: input, idx, output
     sampler |-> <<>>,          \* get_sampled_indices calls that returned
     dist_calls |-> 0,          \* calls of the distribution function
     statements |-> <<>>,       \* read / update / commit calls of the
                                \* point_read and update invocations
     error |-> "none"]          \* the call whose exception ended the run

Init ==
    /\ backend \in Backends
    /\ workload \in Workloads
    /\ tree_depth \in 0..MaxDepth
    /\ degree \in 0..MaxDegree
    /\ insert_per_branch \in 0..MaxInserts
    /\ workload = "insert_only" => tree_depth = 0 /\ degree = 0
    /\ pc = "setup"
    /\ tree = <<>>
    /\ total_branches = 0
    /\ current_level_nodes = <<>>
    /\ qi = 0
    /\ ci = 0
    /\ current_visited = 0
    /\ conn = RootName
    /\ branches = {RootName}
    /\ fork_of = (RootName :> RootName)
    /\ rows = (RootName :> {})
    /\ pks_loaded = FALSE
    /\ all_pks = {}
    /\ datagen_loaded = FALSE
    /\ conn_open = TRUE
    /\ attempts = 0
    /\ inserted_count = 0
    /\ obs = Obs0
    /\ timer = Timer0
    /\ tobs = TObs0
    /\ sampling_rate = RateDen
    /\ max_sample_size = 1
    /\ updatable_columns = 1
    /\ sort_idx = -1
    /\ pk_list = <<>>
    /\ skewed_indices = <<>>
    /\ ri = 0

\* the node bound by "for node in current_level_nodes" (0 outside the loop)
node == IF qi \in 1..Len(current_level_nodes) THEN current_level_nodes[qi]
        ELSE 0

\* ------------------------------------------------------------- sampling
\* Rates are the fractions n / RateDen; the values a distribution returns
\* are the fractions k / DistDen with 0 <= k <= DistDen.
min2(a, b) == IF a < b THEN a ELSE b
max2(a, b) == IF a > b THEN a ELSE b

valid_rate_any(num) == TRUE

\* sampling.py:75, "0.0 < sampling_rate <= 1.0"
valid_rate(num) == 0 < num /\ num <= RateDen

sampling_size_uncapped(population_size, num, cap) ==
    max2(1, (population_size * num) \div RateDen)

\* sampling.py:79-81
sampling_size(population_size, num, cap) ==
    max2(1, min2(cap, (population_size * num) \div RateDen))

scaled_indices_rounded_up(raw, population_size) ==
    [i \in 1..Len(raw) |->
        (raw[i] * (population_size - 1) + DistDen - 1) \div DistDen]

\* sampling.py:92, the truncation of value * (population_size - 1)
scaled_indices(raw, population_size) ==
    [i \in 1..Len(raw) |-> (raw[i] * (population_size - 1)) \div DistDen]

\* beta_distribution: sample_size values of [0, 1], sorted ascending
Draws(sample_size) ==
    {raw \in [1..sample_size -> 0..DistDen] :
        \A i \in 1..(sample_size - 1) : raw[i] <= raw[i + 1]}

\* get_sampled_indices; raw is what the distribution returns when it is
\* called with the sampling size
get_sampled_indices(population_size, num, cap, raw) ==
    IF ~valid_rate(num)
    THEN [raised |-> TRUE, dist_called |-> FALSE, indices |-> <<>>]
    ELSE [raised |-> FALSE, dist_called |-> TRUE,
          indices |-> scaled_indices(raw, population_size)]

\* x[idx] of Python: a negative idx counts from the end of the tuple
field(x, idx) == IF idx < 0 THEN x[Len(x) + idx + 1] ELSE x[idx + 1]

insert_keep_order(sorted, x, idx) == Append(sorted, x)

\* One step of the stable sort: x goes behind every element whose key is
\* not larger than its own (these are a prefix of the ascending sequence).
insert_stable(sorted, x, idx) ==
    LET n == Cardinality({i \in DOMAIN sorted :
                            field(sorted[i], idx) <= field(x, idx)})
    IN SubSeq(sorted, 1, n) \o <<x>> \o SubSeq(sorted, n + 1, Len(sorted))

\* sort_population: population.sort(key=lambda x: x[idx]), a stable sort
\* that compares nothing but the values at idx
RECURSIVE sort_population(_, _)
sort_population(population, idx) ==
    IF population = <<>> THEN <<>>
    ELSE insert_stable(
            sort_population(SubSeq(population, 1, Len(population) - 1), idx),
            population[Len(population)], idx)

\* list(pk_set): the elements of the set in some order
RECURSIVE list_of_set(_)
list_of_set(S) ==
    IF S = {} THEN <<>>
    ELSE LET x == CHOOSE y \in S : TRUE
         IN <<x>> \o list_of_set(S \ {x})

\* Every order list(pk_set) can give
Listings(S) ==
    {l \in [1..Cardinality(S) -> S] : \A x \in S : \E i \in DOMAIN l : l[i] = x}

reversed_pk_list(pk_set, idx) ==
    LET l == sort_population(list_of_set({<<k>> : k \in pk_set}), idx)
    IN [i \in DOMAIN l |-> l[Len(l) + 1 - i][1]]

\* tasks.py:134-138 for the table of the benchmark, whose keys have one
\* column: list(pk_set), then sort_population; the keys being distinct, the
\* result does not depend on the order list() gives
sorted_pk_list(pk_set, idx) ==
    LET l == sort_population(list_of_set({<<k>> : k \in pk_set}), idx)
    IN [i \in DOMAIN l |-> l[i][1]]

\* ------------------------------------------------- timed backend calls
\* timed= arguments chosen by the workload methods
\* the workloads that run branch_insert_op
traversing(w) == w \in {"branch_insert", "branch_insert_read"}

time_inserts(w) == w \in {"branch_insert", "insert_only"}
time_branching(w) == w = "branch_only"

st_now == [timer |-> timer, tobs |-> tobs]
set_recorder(st) == timer' = st.timer /\ tobs' = st.tobs

\* How the backend answers one statement: it executes it, it fails it with
\* an error of the class psycopg2.ProgrammingError (undefined table, missing
\* privilege, syntax error, ...), or it fails it with any other error.
ExecOutcomes == {"ok", "programming_error", "error"}

\* DBToolSuite.run_sql_query: the rows of the result set, [] when
\* psycopg2.ProgrammingError was raised by execute or by fetchall, or the
\* exception re-raised for every other error.
run_sql_query(outcome) ==
    IF outcome = "error" THEN "raise"
    ELSE IF outcome = "programming_error" THEN "empty"
    ELSE "result"

\* DBToolSuite.run_sql_query as seen by the Timer: a timed cursor records
\* "execute" whether or not the statement fails, and "fetchall" whenever
\* fetchall is reached (also when it raises for want of a result set).
run_sql_query_rec(st, timed, exec_ok) ==
    IF ~timed THEN st
    ELSE LET s1 == collect(st, "cursor", "execute")
         IN IF exec_ok THEN collect(s1, "cursor", "fetchall") ELSE s1

\* What can happen inside commit_changes: nothing fails, dolt_add fails,
\* dolt_commit fails, conn.commit() fails.  The Neon commit_changes is empty.
CommitOutcomes(be) ==
    IF be = "dolt" THEN {"ok", "add", "stmt", "conn"} ELSE {"ok"}

\* DoltToolSuite.commit_changes / NeonToolSuite.commit_changes as seen by
\* the Timer; the connection of the Dolt adapter is a TimerConnection
commit_changes_rec(be, st, timed, outcome) ==
    IF be # "dolt" THEN st
    ELSE LET s1 == run_sql_query_rec(st, timed, outcome # "add")
             s2 == IF outcome = "add" THEN s1
                   ELSE run_sql_query_rec(s1, timed, outcome # "stmt")
         IN IF outcome \in {"add", "stmt"} THEN s2
            ELSE collect(s2, "connection", "commit")

\* create_db_branch as seen by the Timer.  Dolt: the checkout through
\* run_sql_query, then the connection's commit.  Neon: the explicit
\* "neon_branching" sample, taken only when branch_create returns.
create_db_branch_rec(be, st, timed, exec_ok) ==
    IF be = "dolt"
    THEN LET s1 == run_sql_query_rec(st, timed, exec_ok)
         IN IF exec_ok THEN collect(s1, "connection", "commit") ELSE s1
    ELSE IF timed /\ exec_ok THEN collect(st, "cursor", "neon_branching")
         ELSE st

\* ------------------------------------------------------------- setup
\* setup_benchmark_database as seen by the Timer: the commit_changes of
\* setup_db, and with a preload directory the conn.commit() of
\* bulk_copy_from_file and the commit_changes of preload_db_data.  All are
\* untimed calls on the TimerConnection made by init_for_bench.
setup_rec(be, st, with_preload) ==
    LET s1 == commit_changes_rec(be, st, FALSE, "ok")
        s2 == IF with_preload THEN collect(s1, "connection", "commit") ELSE s1
    IN IF with_preload THEN commit_changes_rec(be, s2, FALSE, "ok") ELSE s2

\* runner.py:181-205: the schema is created and, with a preload directory,
\* the table is filled from its file (update_bench needs the directory)
SetupBenchmarkDatabase ==
    /\ pc = "setup"
    /\ \E with_preload \in BOOLEAN, preload \in SUBSET Keys :
         LET s == setup_rec(backend, st_now, with_preload)
         IN /\ ~with_preload => preload = {}
            /\ workload = "update" => with_preload
            /\ rows' = (RootName :> preload)
            /\ set_recorder(s)
            /\ obs' = [obs EXCEPT !.setup_tick = s.tobs.tick]
    /\ pc' = "start"
    /\ UNCHANGED <<config, conn_open, travers, conn, branches, fork_of, cache, insloop,
                   readloop>>

\* runner.py:612-628: --read_no_setup with --reuse_exisiting_db skips the
\* setup; the table holds what an earlier run left in it
ReuseExistingDb ==
    /\ pc = "setup"
    /\ workload = "read_no_setup"
    /\ \E existing \in SUBSET Keys : rows' = (RootName :> existing)
    /\ pc' = "start"
    /\ UNCHANGED <<config, conn_open, travers, conn, branches, fork_of, cache, insloop,
                   obs, recorder, readloop>>

\* ------------------------------------------- DatabaseTask's lazy caches
cache_hit_nonempty(loaded, value) == loaded /\ value # {}

\* tasks.py:76 and 97, "table_name in self.all_pks": membership in the
\* dictionary, whatever value is cached under the key
cache_hit(loaded, value) == loaded

\* tasks.py:69-83, the key scan runs only on a miss and its result becomes
\* the cached population
load_pk_values_for_table(loaded, pks, table_rows) ==
    IF cache_hit(loaded, pks)
    THEN [loaded |-> loaded, pks |-> pks, scans |-> 0]
    ELSE [loaded |-> TRUE, pks |-> table_rows, scans |-> 1]

\* tasks.py:92-105, the DDL fetch runs only on a miss
load_datagen_for_table(loaded) ==
    IF loaded
    THEN [loaded |-> loaded, fetches |-> 0]
    ELSE [loaded |-> TRUE, fetches |-> 1]

\* what a call of load_pk_values_for_table did, as seen from outside
pk_load_seen(o, was_loaded, before, r) ==
    [o EXCEPT !.key_scans = @ + r.scans,
              !.scanned = IF r.scans = 1 THEN r.pks ELSE @,
              !.loads = Append(@, [cache |-> "pks",
                                   present |-> was_loaded,
                                   empty |-> before = {},
                                   calls |-> r.scans,
                                   same |-> r.loaded = was_loaded
                                            /\ r.pks = before])]

\* what a call of load_datagen_for_table did, as seen from outside
datagen_load_seen(o, was_loaded, r) ==
    [o EXCEPT !.ddl_fetches = @ + r.fetches,
              !.loads = Append(@, [cache |-> "datagen",
                                   present |-> was_loaded,
                                   empty |-> FALSE,
                                   calls |-> r.fetches,
                                   same |-> r.loaded = was_loaded])]

\* ----------------------------------------------------- DatabaseTask.insert
accepts_any(pk_tuple, pks) == TRUE

\* tasks.py:186, the test that accepts a generated row
accepts(pk_tuple, pks) == pk_tuple \notin pks

add_pk_replace(pks, pk_tuple) == {pk_tuple}

\* tasks.py:188, the accepted key enters the cached population
add_pk(pks, pk_tuple) == pks \cup {pk_tuple}

loop_no_break(att, ins, num_rows) == att < num_rows * RetryFactor

loop_double_budget(att, ins, num_rows) ==
    att < num_rows * RetryFactor * 2 /\ ins < num_rows

\* tasks.py:178-180, the generation loop goes on
loop_continues(att, ins, num_rows) ==
    att < num_rows * RetryFactor /\ ins < num_rows

shortfall_warning_always(ins, num_rows) == ins <= num_rows

\* tasks.py:194, the shortfall is printed as a warning
shortfall_warning(ins, num_rows) == ins < num_rows

\* insert_bench, runner.py:244-247 (one table)
InsertBenchStart ==
    /\ pc = "start"
    /\ workload = "insert_only"
    /\ pc' = "insert"
    /\ UNCHANGED <<config, conn_open, travers, store, cache, insloop, obs, recorder,
                   readloop>>

\* tasks.py:164-176: column and key metadata, the lazy key scan
\* (load_pk_values_for_table), the lazy generator, the loop counters
InsertLoad ==
    /\ pc = "insert"
    /\ LET ld == load_pk_values_for_table(pks_loaded, all_pks, rows[conn])
           dg == load_datagen_for_table(datagen_loaded)
           o1 == pk_load_seen(obs, pks_loaded, all_pks, ld)
           o2 == datagen_load_seen(o1, datagen_loaded, dg)
       IN /\ pks_loaded' = ld.loaded
          /\ all_pks' = ld.pks
          /\ datagen_loaded' = dg.loaded
          /\ obs' = [o2 EXCEPT !.insert_calls = @ + 1,
                               !.batch_tick = tobs.tick]
    /\ attempts' = 0
    /\ inserted_count' = 0
    /\ pc' = "insert_loop"
    /\ UNCHANGED <<config, conn_open, travers, store, recorder, readloop>>

\* tasks.py:178-190, one iteration of the generation loop; the generator
\* returns a row with any key of the key domain, the backend executes the
\* write or fails it; a write for which run_sql_query returns is counted
InsertAttempt ==
    /\ pc = "insert_loop"
    /\ loop_continues(attempts, inserted_count, insert_per_branch)
    /\ \E pk_tuple \in Keys, outcome \in ExecOutcomes :
       LET ok == outcome = "ok"
           late == IF inserted_count >= insert_per_branch
                   THEN obs.late_gen + 1 ELSE obs.late_gen
       IN
        /\ attempts' = attempts + 1
        /\ IF accepts(pk_tuple, all_pks)
           THEN /\ all_pks' = add_pk(all_pks, pk_tuple)
                /\ set_recorder(run_sql_query_rec(st_now,
                                                   time_inserts(workload), ok))
                /\ IF run_sql_query(outcome) # "raise"
                   THEN /\ rows' = IF ok
                                   THEN [rows EXCEPT ![conn] = @ \cup {pk_tuple}]
                                   ELSE rows
                        /\ inserted_count' = inserted_count + 1
                        /\ pc' = pc
                        /\ obs' = [obs EXCEPT
                                     !.gen_total = @ + 1,
                                     !.late_gen = late,
                                     !.write_log = Append(@,
                                         [key |-> pk_tuple, node |-> node,
                                          branch |-> conn,
                                          written |-> ok,
                                          call |-> obs.insert_calls,
                                          commits_before |-> obs.commits,
                                          cached |-> pk_tuple \in all_pks])]
                   ELSE /\ pc' = "aborted"
                        /\ obs' = [obs EXCEPT !.gen_total = @ + 1,
                                              !.late_gen = late,
                                              !.error = "write"]
                        /\ UNCHANGED <<rows, inserted_count>>
           ELSE /\ ok
                /\ obs' = [obs EXCEPT !.gen_total = @ + 1,
                                      !.late_gen = late]
                /\ UNCHANGED <<all_pks, rows, inserted_count, pc, recorder>>
    /\ UNCHANGED <<config, conn_open, travers, conn, branches, fork_of, pks_loaded,
                   datagen_loaded, readloop>>

\* tasks.py:192-199: the single commit, the shortfall warning, the return
InsertCommit ==
    /\ pc = "insert_loop"
    /\ ~loop_continues(attempts, inserted_count, insert_per_branch)
    /\ \E outcome \in CommitOutcomes(backend) :
        LET rec == commit_changes_rec(backend, st_now,
                                      time_inserts(workload), outcome)
        IN
         /\ set_recorder(rec)
         /\ obs' = [obs EXCEPT
                 !.batches = Append(@,
                    [timed |-> time_inserts(workload),
                     rows |-> inserted_count,
                     execute |-> Len(collected_by(rec.tobs.log, "cursor",
                                                  "execute", obs.batch_tick)),
                     samples |-> rec.tobs.tick - obs.batch_tick]),
                 !.commits = @ + 1,
                 !.commit_failures = IF outcome # "ok" THEN @ + 1 ELSE @,
                 !.warnings = IF shortfall_warning(inserted_count,
                                                   insert_per_branch)
                              THEN @ + 1 ELSE @,
                 !.insert_returns = @ + 1]
    /\ pc' = IF traversing(workload) THEN "visited" ELSE "report"
    /\ UNCHANGED <<config, conn_open, travers, store, cache, insloop, readloop>>

\* ------------------------------------------------------- branch_insert_op

BranchInsertOpStart ==
    /\ pc = "start"
    /\ traversing(workload)
    /\ LET b == build_branch_tree(RootName, tree_depth, degree)
       IN /\ tree' = b.nodes
          /\ total_branches' = b.total
    /\ current_level_nodes' = <<1>>
    /\ qi' = 1
    /\ ci' = 0
    /\ current_visited' = 0
    /\ pc' = "connect"
    /\ UNCHANGED <<config, conn_open, store, cache, insloop, obs, recorder,
                   readloop>>

\* runner.py:318 and connect_db_branch of the adapter
ConnectBranch ==
    /\ pc = "connect"
    /\ LET name == tree[node].name
       IN IF name \in branches
          THEN /\ conn' = name
               /\ pc' = IF insert_per_branch > 0 THEN "insert" ELSE "visited"
               /\ obs' = [obs EXCEPT !.connects = Append(@, node)]
          ELSE /\ conn' = conn
               /\ pc' = "aborted"
               /\ obs' = [obs EXCEPT !.error = "connect"]
    /\ UNCHANGED <<config, conn_open, travers, branches, fork_of, rows, cache, insloop,
                   recorder, readloop>>

\* runner.py:325-330
Visited ==
    /\ pc = "visited"
    /\ current_visited' = current_visited + 1
    /\ obs' = [obs EXCEPT !.visit_order = Append(@, node)]
    /\ ci' = 1
    /\ pc' = "children"
    /\ UNCHANGED <<config, conn_open, tree, total_branches, current_level_nodes, qi,
                   store, cache, insloop, recorder, readloop>>

\* runner.py:331-336, one iteration of "for child in node.children", given
\* what the backend did (accepted, commit_ok) and what create_branch
\* returned (success)
child_iteration(accepted, commit_ok, success) ==
    /\ pc = "children"
    /\ ci <= Len(children(tree, node))
    /\  LET child == children(tree, node)[ci]
            name == tree[child].name
            rec == create_db_branch_rec(backend, st_now,
                                        time_branching(workload), accepted)
        IN /\ set_recorder(rec)
           /\ obs' = [obs EXCEPT
                        !.requested = Append(@, [child |-> child,
                                                 during |-> node,
                                                 on |-> conn,
                                                 timed |->
                                                    time_branching(workload),
                                                 samples |->
                                                    rec.tobs.tick - tobs.tick,
                                                 accepted |-> accepted,
                                                 commit_ok |-> commit_ok,
                                                 result |-> success]),
                        !.created = IF accepted THEN @ \cup {child} ELSE @,
                        !.error = IF success = "raise" THEN "create" ELSE @]
           /\ IF accepted
              THEN /\ branches' = branches \cup {name}
                   /\ fork_of' = fork_of @@ (name :> fork_source(backend, conn))
                   /\ rows' = rows @@
                              (name :> rows[fork_source(backend, conn)])
                   /\ conn' = conn_after_create(backend, conn, name)
              ELSE UNCHANGED store
           /\ IF success = "raise"
              THEN /\ pc' = "aborted"
                   /\ UNCHANGED <<current_level_nodes, ci>>
              ELSE /\ pc' = pc
                   /\ ci' = ci + 1
                   /\ current_level_nodes' =
                        IF truthy(success)
                        THEN Append(current_level_nodes, child)
                        ELSE current_level_nodes
    /\ UNCHANGED <<config, conn_open, tree, total_branches, qi, current_visited,
                   cache, insloop, readloop>>

\* the iteration with create_branch as the program wires it
CreateChild ==
    /\ pc = "children"
    /\ ci <= Len(children(tree, node))
    /\ \E exec_ok, commit_ok \in BOOLEAN :
        LET name == tree[children(tree, node)[ci]].name
            accepted == exec_ok /\ name \notin branches
        IN /\ (backend = "neon" \/ ~exec_ok) => commit_ok
           /\ child_iteration(accepted, commit_ok,
                              create_branch(backend, accepted, commit_ok))

\* end of the child loop: the for loop over the queue takes its next node
NextNode ==
    /\ pc = "children"
    /\ ci > Len(children(tree, node))
    /\ IF qi < Len(current_level_nodes)
       THEN /\ qi' = qi + 1
            /\ pc' = "connect"
       ELSE /\ qi' = qi
            /\ pc' = "report"
    /\ UNCHANGED <<config, conn_open, tree, total_branches, current_level_nodes, ci,
                   current_visited, store, cache, insloop, obs, recorder, readloop>>

\* runner.py:337-340, the values the closing line of a traversal is
\* formatted from
final_report_line(visited, last_node) ==
    [visited |-> visited, current |-> last_node]

\* runner.py:337-378: the aggregated report and the recorder reset
Report ==
    /\ pc = "report"
    /\ obs' = [obs EXCEPT
                 !.reports = @ + 1,
                 !.final_lines =
                    IF traversing(workload)
                    THEN Append(@, final_report_line(current_visited,
                                                     tree[node].name))
                    ELSE @,
                 !.reported = Append(@,
                    [phase |-> workload,
                     at |-> tobs.tick,
                     printed |-> time_inserts(workload)
                                 \/ time_branching(workload),
                     execute |-> report_cursor_elapsed(timer,
                        IF time_branching(workload) /\ backend = "neon"
                           /\ workload # "insert_only"
                        THEN "neon_branching" ELSE "execute").value,
                     commit |->
                        report_connection_elapsed(timer, "commit").value])]
    /\ timer' = reset(timer)
    /\ tobs' = [tobs EXCEPT !.log = <<>>, !.reset_tick = tobs.tick,
                            !.resets = @ + 1]
    /\ pc' = IF workload = "branch_insert_read" THEN "read" ELSE "done"
    /\ UNCHANGED <<config, conn_open, travers, store, cache, insloop, readloop>>

Next ==
    \/ SetupBenchmarkDatabase
    \/ BranchInsertOpStart
    \/ InsertBenchStart
    \/ InsertLoad
    \/ InsertAttempt
    \/ InsertCommit
    \/ ConnectBranch
    \/ Visited
    \/ CreateChild
    \/ NextNode
    \/ Report

Spec == Init /\ [][Next]_vars

\* --------------------------------------- point reads and updates
\* max(...) and min(...) of runner.py:236-237 raise on an empty list
max_raises(times) == times = <<>>

\* tasks.py:55-67, the table of the benchmark has one key column
PkColumns == {0}

\* The statement of one loop iteration, as recorded in obs.statements
statement(kind, key, outcome) ==
    [kind |-> kind, key |-> key, branch |-> conn, ok |-> outcome = "ok",
     raised |-> run_sql_query(outcome) = "raise",
     present |-> key \in rows[conn],
     set |-> {}, where |-> PkColumns]

\* tasks.py:213-216: the columns of the table are its key column and the
\* non-key columns 1..n; the updatable ones are those that are not key columns
all_columns(n) == PkColumns \cup (1..n)
updatable(n) == {col \in all_columns(n) : col \notin PkColumns}

sample_size_uncapped(cols) == Cardinality(cols)

\* tasks.py:246, the upper end of random.randint
sample_size(cols) == min2(MaxColsPerUpdate, Cardinality(cols))

\* tasks.py:244-247: random.sample gives k distinct columns, 1 <= k <= bound
cols_to_update(cols) ==
    {chosen \in SUBSET cols :
        1 <= Cardinality(chosen) /\ Cardinality(chosen) <= sample_size(cols)}

\* runner.py:217-226 and tasks.py:125-150: read_skip_setup up to the read
\* loop of point_read (the lazy key scan, the early return on an empty
\* population, the sort, the sampling)
PointRead ==
    /\ pc = "read" \/ (pc = "start" /\ workload = "read_no_setup")
    /\ LET ld == load_pk_values_for_table(pks_loaded, all_pks, rows[conn])
           pop == ld.pks
           o1 == pk_load_seen(obs, pks_loaded, all_pks, ld)
           n == Cardinality(pop)
       IN
        /\ pks_loaded' = ld.loaded
        /\ all_pks' = pop
        /\ UNCHANGED datagen_loaded
        /\ IF pop = {}
           THEN /\ pc' = "read_report"
                /\ obs' = o1
                /\ UNCHANGED readloop
           ELSE \E raw \in Draws(sampling_size(n, sampling_rate,
                                                max_sample_size)) :
                  LET r == get_sampled_indices(n, sampling_rate,
                                               max_sample_size, raw)
                  IN /\ pk_list' = sorted_pk_list(pop, sort_idx)
                     /\ skewed_indices' = r.indices
                     /\ IF r.raised
                        THEN /\ pc' = "aborted"
                             /\ ri' = 0
                             /\ obs' = [o1 EXCEPT !.error = "sampling"]
                        ELSE /\ pc' = "read_loop"
                             /\ ri' = 1
                             /\ obs' = [o1 EXCEPT
                                  !.dist_calls = @ + 1,
                                  !.sampler = Append(@,
                                     [population_size |-> n,
                                      rate |-> sampling_rate,
                                      cap |-> max_sample_size,
                                      raw |-> raw,
                                      indices |-> r.indices])]
    /\ UNCHANGED <<config, conn_open, travers, store, insloop, recorder>>

\* tasks.py:152-156, one iteration of the read loop; the read is timed; a
\* statement the backend fails raises out of point_read
ReadOne ==
    /\ pc = "read_loop"
    /\ ri <= Len(skewed_indices)
    /\ \E outcome \in ExecOutcomes :
         LET ok == outcome = "ok"
             raised == run_sql_query(outcome) = "raise"
             pk_to_read == pk_list[skewed_indices[ri] + 1]
         IN /\ set_recorder(run_sql_query_rec(st_now, TRUE, ok))
            /\ obs' = [obs EXCEPT
                         !.statements =
                            Append(@, statement("read", pk_to_read, outcome)),
                         !.error = IF raised THEN "read" ELSE @]
            /\ IF ~raised
               THEN /\ ri' = ri + 1
                    /\ pc' = IF ri = Len(skewed_indices)
                             THEN "read_report" ELSE pc
               ELSE /\ pc' = "aborted"
                    /\ ri' = ri
    /\ UNCHANGED <<config, conn_open, travers, store, cache, insloop, pk_list,
                   skewed_indices>>

\* runner.py:229-242: the two lists are read, the summary is formatted
\* (the average, the count, the maximum and the minimum of the "execute"
\* list), the Timer is reset
ReadReport ==
    /\ pc = "read_report"
    /\ LET cursor_execute_elapsed ==
              report_cursor_elapsed(timer, "execute").value
           cursor_fetch_elapsed ==
              report_cursor_elapsed(timer, "fetchall").value
       IN IF max_raises(cursor_execute_elapsed)
          THEN /\ pc' = "aborted"
               /\ obs' = [obs EXCEPT !.error = "report"]
               /\ UNCHANGED recorder
          ELSE /\ pc' = "done"
               /\ obs' = [obs EXCEPT
                            !.reports = @ + 1,
                            !.reported = Append(@,
                               [phase |-> "read",
                                at |-> tobs.tick,
                                printed |-> TRUE,
                                execute |-> cursor_execute_elapsed,
                                fetchall |-> cursor_fetch_elapsed])]
               /\ timer' = reset(timer)
               /\ tobs' = [tobs EXCEPT !.log = <<>>,
                                       !.reset_tick = tobs.tick,
                                       !.resets = @ + 1]
    /\ UNCHANGED <<config, conn_open, travers, store, cache, insloop, readloop>>

\* runner.py:269-282 and tasks.py:214-238: update_bench for one table, up
\* to the update loop of update (the early return without non-key columns,
\* the lazy key scan, the early return on an empty population, the sort,
\* the sampling)
Update ==
    /\ pc = "start"
    /\ workload = "update"
    /\ IF updatable(updatable_columns) = {}
       THEN /\ pc' = "update_report"
            /\ UNCHANGED <<cache, obs, readloop>>
       ELSE
        LET ld == load_pk_values_for_table(pks_loaded, all_pks, rows[conn])
            dg == load_datagen_for_table(datagen_loaded)
            pop == ld.pks
            o1 == datagen_load_seen(
                      pk_load_seen(obs, pks_loaded, all_pks, ld),
                      datagen_loaded, dg)
            n == Cardinality(pop)
        IN
        /\ pks_loaded' = ld.loaded
        /\ all_pks' = pop
        /\ datagen_loaded' = dg.loaded
        /\ IF pop = {}
           THEN /\ pc' = "update_report"
                /\ obs' = o1
                /\ UNCHANGED readloop
           ELSE \E raw \in Draws(sampling_size(n, sampling_rate,
                                                max_sample_size)) :
                  LET r == get_sampled_indices(n, sampling_rate,
                                               max_sample_size, raw)
                  IN /\ pk_list' = sorted_pk_list(pop, sort_idx)
                     /\ skewed_indices' = r.indices
                     /\ IF r.raised
                        THEN /\ pc' = "aborted"
                             /\ ri' = 0
                             /\ obs' = [o1 EXCEPT !.error = "sampling"]
                        ELSE /\ pc' = "update_loop"
                             /\ ri' = 1
                             /\ obs' = [o1 EXCEPT
                                  !.dist_calls = @ + 1,
                                  !.sampler = Append(@,
                                     [population_size |-> n,
                                      rate |-> sampling_rate,
                                      cap |-> max_sample_size,
                                      raw |-> raw,
                                      indices |-> r.indices])]
    /\ UNCHANGED <<config, conn_open, travers, store, insloop, recorder>>

after_update_loop_no_commit(i, indices) ==
    IF i = Len(indices) THEN "update_report" ELSE "update_loop"

\* tasks.py:241 and 272-273: the loop takes its next index, and behind the
\* last one comes the commit
after_update_loop(i, indices) ==
    IF i = Len(indices) THEN "update_commit" ELSE "update_loop"

\* tasks.py:241-270, one iteration of the update loop
UpdateOne ==
    /\ pc = "update_loop"
    /\ ri <= Len(skewed_indices)
    /\ \E outcome \in ExecOutcomes,
          chosen \in cols_to_update(updatable(updatable_columns)) :
         LET ok == outcome = "ok"
             raised == run_sql_query(outcome) = "raise"
             pk_tuple == pk_list[skewed_indices[ri] + 1]
         IN /\ set_recorder(run_sql_query_rec(st_now, TRUE, ok))
            /\ obs' = [obs EXCEPT
                         !.statements =
                            Append(@, [statement("update", pk_tuple, outcome)
                                          EXCEPT !.set = chosen]),
                         !.error = IF raised THEN "update" ELSE @]
            /\ IF ~raised
               THEN /\ ri' = ri + 1
                    /\ pc' = after_update_loop(ri, skewed_indices)
               ELSE /\ pc' = "aborted"
                    /\ ri' = ri
    /\ UNCHANGED <<config, conn_open, travers, store, cache, insloop, pk_list,
                   skewed_indices>>

\* tasks.py:272-274: the single commit of the update batch
UpdateCommit ==
    /\ pc = "update_commit"
    /\ \E outcome \in CommitOutcomes(backend) :
         /\ set_recorder(commit_changes_rec(backend, st_now, TRUE, outcome))
         /\ obs' = [obs EXCEPT
                      !.commit_failures = IF outcome # "ok" THEN @ + 1 ELSE @,
                      !.statements =
                         Append(@, [kind |-> "commit", key |-> 0,
                                    branch |-> conn, ok |-> outcome = "ok",
                                    raised |-> FALSE, present |-> FALSE,
                                    set |-> {}, where |-> {}])]
    /\ pc' = "update_report"
    /\ UNCHANGED <<config, conn_open, travers, store, cache, insloop, readloop>>

\* runner.py:283-289: the "execute" list is read, the average is printed,
\* the Timer is reset
UpdateReport ==
    /\ pc = "update_report"
    /\ obs' = [obs EXCEPT
                 !.reports = @ + 1,
                 !.reported = Append(@,
                    [phase |-> "update",
                     at |-> tobs.tick,
                     printed |-> TRUE,
                     execute |-> report_cursor_elapsed(timer,
                                                       "execute").value])]
    /\ timer' = reset(timer)
    /\ tobs' = [tobs EXCEPT !.log = <<>>, !.reset_tick = tobs.tick,
                            !.resets = @ + 1]
    /\ pc' = "done"
    /\ UNCHANGED <<config, conn_open, travers, store, cache, insloop, readloop>>

\* The workloads that sample keys: a read of an existing table, an update
\* of a preloaded table, and a traversal followed by a read.
ReadWorkloads == {"read_no_setup", "update", "branch_insert_read"}

ReadInit ==
    /\ backend \in Backends
    /\ workload \in ReadWorkloads
    /\ tree_depth \in 0..ReadMaxDepth
    /\ degree \in 0..ReadMaxDegree
    /\ insert_per_branch \in 0..MaxInserts
    /\ workload # "branch_insert_read"
         => tree_depth = 0 /\ degree = 0 /\ insert_per_branch = 0
    /\ sampling_rate \in 0..(RateDen + 1)
    /\ max_sample_size \in 1..MaxCap
    /\ updatable_columns \in 0..1
    /\ workload # "update" => updatable_columns = 1
    /\ sort_idx = -1
    /\ pc = "setup"
    /\ tree = <<>>
    /\ total_branches = 0
    /\ current_level_nodes = <<>>
    /\ qi = 0
    /\ ci = 0
    /\ current_visited = 0
    /\ conn = RootName
    /\ branches = {RootName}
    /\ fork_of = (RootName :> RootName)
    /\ rows = (RootName :> {})
    /\ pks_loaded = FALSE
    /\ all_pks = {}
    /\ datagen_loaded = FALSE
    /\ conn_open = TRUE
    /\ attempts = 0
    /\ inserted_count = 0
    /\ obs = Obs0
    /\ timer = Timer0
    /\ tobs = TObs0
    /\ pk_list = <<>>
    /\ skewed_indices = <<>>
    /\ ri = 0

ReadNext ==
    \/ SetupBenchmarkDatabase
    \/ ReuseExistingDb
    \/ BranchInsertOpStart
    \/ ConnectBranch
    \/ InsertLoad
    \/ InsertAttempt
    \/ InsertCommit
    \/ Visited
    \/ CreateChild
    \/ NextNode
    \/ Report
    \/ PointRead
    \/ ReadOne
    \/ ReadReport
    \/ Update
    \/ UpdateOne
    \/ UpdateCommit
    \/ UpdateReport

SpecRead == ReadInit /\ [][ReadNext]_vars

\* ------------------- the traversal loop of branch_insert_op on its own,
\* with every result the call of create_branch can hand to "if success:"

CreateResults == {"True", "None", "raise"}

\* runner.py:20-37, the number of nodes build_branch_tree makes
RECURSIVE tree_size(_, _)
tree_size(depth, deg) ==
    IF depth = 0 THEN 1 ELSE 1 + deg * tree_size(depth - 1, deg)

\* runner.py:181-205 without a preload directory: what the recorder holds
\* when the setup is through
after_setup(be) == setup_rec(be, [timer |-> Timer0, tobs |-> TObs0], FALSE)

\* every tree of at most LoopMaxNodes nodes and of degree at most
\* LoopMaxDegree, the database set up and empty
LoopInit ==
    /\ backend \in Backends
    /\ workload = "branch_insert"
    /\ tree_depth \in 0..LoopMaxNodes
    /\ degree \in 0..LoopMaxDegree
    /\ tree_size(tree_depth, degree) <= LoopMaxNodes
    /\ insert_per_branch = 0
    /\ sampling_rate = RateDen /\ max_sample_size = 1
    /\ updatable_columns = 1
    /\ sort_idx = -1
    /\ pc = "start"
    /\ tree = <<>> /\ total_branches = 0
    /\ current_level_nodes = <<>> /\ qi = 0 /\ ci = 0
    /\ current_visited = 0
    /\ conn = RootName
    /\ branches = {RootName}
    /\ fork_of = (RootName :> RootName)
    /\ rows = (RootName :> {})
    /\ pks_loaded = FALSE /\ all_pks = {}
    /\ datagen_loaded = FALSE
    /\ conn_open = TRUE
    /\ attempts = 0 /\ inserted_count = 0
    /\ obs = [Obs0 EXCEPT !.setup_tick = after_setup(backend).tobs.tick]
    /\ timer = after_setup(backend).timer
    /\ tobs = after_setup(backend).tobs
    /\ pk_list = <<>>
    /\ skewed_indices = <<>>
    /\ ri = 0

\* runner.py:331-336 with the result of create_branch drawn freely: a true
\* result stands for a branch the backend created
CreateChildAny ==
    /\ pc = "children"
    /\ ci <= Len(children(tree, node))
    /\ \E success \in CreateResults, accepted \in BOOLEAN :
        LET name == tree[children(tree, node)[ci]].name
        IN /\ truthy(success) => accepted
           /\ accepted => name \notin branches
           /\ child_iteration(accepted, TRUE, success)

LoopNext ==
    \/ BranchInsertOpStart
    \/ ConnectBranch
    \/ Visited
    \/ CreateChildAny
    \/ NextNode
    \/ Report

\* every backend call returns: a step that can be taken is taken
SpecLoop == LoopInit /\ [][LoopNext]_vars /\ WF_vars(LoopNext)

\* ------------------------------------------ leaving the suite's context

\* db_api.py:28-34, DBToolSuite.close_connection
close_connection(open) == FALSE

\* runner.py:137-153, BenchmarkSuite.__exit__: a failing delete_db is caught
\* and printed, the deletion of the Neon project is not guarded, the
\* connection is closed last
exit_suite(be, open, delete_db_after_done, delete_db_ok, delete_project_ok) ==
    IF delete_db_after_done /\ be = "neon" /\ ~delete_project_ok
    THEN [open |-> open, raised |-> TRUE]
    ELSE [open |-> close_connection(open), raised |-> FALSE]

\* runner.py:621-672: the with block is left, by its end or by an exception
\* of a benchmark phase
ExitSuite ==
    /\ pc \in {"done", "aborted"}
    /\ \E delete_db_after_done, delete_db_ok, delete_project_ok \in BOOLEAN :
         LET r == exit_suite(backend, conn_open, delete_db_after_done,
                             delete_db_ok, delete_project_ok)
         IN /\ ~delete_db_after_done => delete_db_ok /\ delete_project_ok
            /\ backend # "neon" => delete_project_ok
            /\ conn_open' = r.open
            /\ obs' = [obs EXCEPT !.exits =
                         Append(@, [after |-> pc,
                                    delete |-> delete_db_after_done,
                                    delete_db_ok |-> delete_db_ok,
                                    delete_project_ok |-> delete_project_ok,
                                    raised |-> r.raised])]
    /\ pc' = "exited"
    /\ UNCHANGED <<config, travers, store, cache, insloop, recorder, readloop>>

ExitNext == Next \/ ExitSuite

SpecExit == Init /\ [][ExitNext]_vars

\* ------------------------------------------ the update workload alone,
\* over tables of up to MaxColumns non-key columns

UpdateInit ==
    /\ backend \in Backends
    /\ workload = "update"
    /\ tree_depth = 0 /\ degree = 0 /\ insert_per_branch = 0
    /\ sampling_rate \in 1..RateDen
    /\ max_sample_size \in 1..UpdateMaxCap
    /\ updatable_columns \in 0..MaxColumns
    /\ sort_idx = -1
    /\ pc = "setup"
    /\ tree = <<>> /\ total_branches = 0
    /\ current_level_nodes = <<>> /\ qi = 0 /\ ci = 0
    /\ current_visited = 0
    /\ conn = RootName
    /\ branches = {RootName}
    /\ fork_of = (RootName :> RootName)
    /\ rows = (RootName :> {})
    /\ pks_loaded = FALSE /\ all_pks = {}
    /\ datagen_loaded = FALSE
    /\ conn_open = TRUE
    /\ attempts = 0 /\ inserted_count = 0
    /\ obs = Obs0
    /\ timer = Timer0
    /\ tobs = TObs0
    /\ pk_list = <<>>
    /\ skewed_indices = <<>>
    /\ ri = 0

UpdateNext ==
    \/ SetupBenchmarkDatabase
    \/ Update
    \/ UpdateOne
    \/ UpdateCommit
    \/ UpdateReport

SpecUpdate == UpdateInit /\ [][UpdateNext]_vars

\* ------------------------------------ sort_population driven on its own
\* Populations of key tuples with two columns, in any order and with
\* repetitions, sorted by either column; between two sorts the population
\* may be listed anew from its set, as point_read and update do.
PkTuples == (1..MaxField) \X (1..MaxField)
Populations == UNION {[1..n -> PkTuples] : n \in 0..MaxPop}
SortIdxs == {-1, 0, 1}

SortInit ==
    /\ backend = "dolt" /\ workload = "insert_only"
    /\ tree_depth = 0 /\ degree = 0 /\ insert_per_branch = 0
    /\ sampling_rate = RateDen /\ max_sample_size = 1
    /\ updatable_columns = 1
    /\ sort_idx \in SortIdxs
    /\ pc = "sort_api"
    /\ tree = <<>> /\ total_branches = 0
    /\ current_level_nodes = <<>> /\ qi = 0 /\ ci = 0
    /\ current_visited = 0
    /\ conn = RootName
    /\ branches = {RootName}
    /\ fork_of = (RootName :> RootName)
    /\ rows = (RootName :> {})
    /\ pks_loaded = FALSE /\ all_pks = {}
    /\ datagen_loaded = FALSE
    /\ conn_open = TRUE
    /\ attempts = 0 /\ inserted_count = 0
    /\ obs = Obs0
    /\ timer = Timer0
    /\ tobs = TObs0
    /\ pk_list \in Populations
    /\ skewed_indices = <<>>
    /\ ri = 0

\* sampling.sort_population(pk_list, sort_idx), in place
SortPopulation ==
    /\ pc = "sort_api"
    /\ Len(obs.sorts) < MaxSorts
    /\ pk_list' = sort_population(pk_list, sort_idx)
    /\ obs' = [obs EXCEPT !.sorts =
                 Append(@, [input |-> pk_list, idx |-> sort_idx,
                            output |-> sort_population(pk_list, sort_idx)])]
    /\ UNCHANGED <<config, conn_open, pc, travers, store, cache, insloop, recorder,
                   skewed_indices, ri>>

\* pk_list = list(pk_set): the set of the tuples, listed in any order
ListPkSet ==
    /\ pc = "sort_api"
    /\ \E l \in Listings({pk_list[i] : i \in DOMAIN pk_list}) :
         /\ l # pk_list
         /\ pk_list' = l
    /\ UNCHANGED <<config, conn_open, pc, travers, store, cache, insloop, recorder,
                   skewed_indices, ri, obs>>

SortNext == SortPopulation \/ ListPkSet

SpecSort == SortInit /\ [][SortNext]_vars

\* ------------------------------- DatabaseTask's caches driven on their own

OtherBranch == <<1, 1>>

\* an orchestrator with empty caches, connected to one of two branches whose
\* tables hold any rows
CacheInit ==
    /\ backend = "dolt" /\ workload = "insert_only"
    /\ tree_depth = 0 /\ degree = 0 /\ insert_per_branch = 0
    /\ sampling_rate = RateDen /\ max_sample_size = 1
    /\ updatable_columns = 1
    /\ sort_idx = -1
    /\ pc = "cache_api"
    /\ tree = <<>> /\ total_branches = 0
    /\ current_level_nodes = <<>> /\ qi = 0 /\ ci = 0
    /\ current_visited = 0
    /\ conn = RootName
    /\ branches = {RootName, OtherBranch}
    /\ fork_of = (RootName :> RootName) @@ (OtherBranch :> RootName)
    /\ rows \in [{RootName, OtherBranch} -> SUBSET Keys]
    /\ pks_loaded = FALSE /\ all_pks = {}
    /\ datagen_loaded = FALSE
    /\ conn_open = TRUE
    /\ attempts = 0 /\ inserted_count = 0
    /\ obs = Obs0
    /\ timer = Timer0
    /\ tobs = TObs0
    /\ pk_list = <<>>
    /\ skewed_indices = <<>>
    /\ ri = 0

\* DatabaseTask.load_pk_values_for_table(table_name)
LoadPkValues ==
    /\ pc = "cache_api"
    /\ Len(obs.loads) < MaxLoads
    /\ LET ld == load_pk_values_for_table(pks_loaded, all_pks, rows[conn])
       IN /\ pks_loaded' = ld.loaded
          /\ all_pks' = ld.pks
          /\ obs' = pk_load_seen(obs, pks_loaded, all_pks, ld)
    /\ UNCHANGED <<config, conn_open, pc, travers, store, datagen_loaded, insloop,
                   recorder, readloop>>

\* DatabaseTask.load_datagen_for_table(table_name)
LoadDatagen ==
    /\ pc = "cache_api"
    /\ Len(obs.loads) < MaxLoads
    /\ LET dg == load_datagen_for_table(datagen_loaded)
       IN /\ datagen_loaded' = dg.loaded
          /\ obs' = datagen_load_seen(obs, datagen_loaded, dg)
    /\ UNCHANGED <<config, conn_open, pc, travers, store, pks_loaded, all_pks, insloop,
                   recorder, readloop>>

\* DatabaseTask.connect_branch(branch_name): the connection moves to the
\* other branch, the caches are not touched
CacheConnectBranch ==
    /\ pc = "cache_api"
    /\ \E b \in branches \ {conn} : conn' = b
    /\ UNCHANGED <<config, conn_open, pc, travers, branches, fork_of, rows, cache,
                   insloop, obs, recorder, readloop>>

CacheNext == LoadPkValues \/ LoadDatagen \/ CacheConnectBranch

SpecCache == CacheInit /\ [][CacheNext]_vars

\* ------------------------------------------- the Timer driven on its own
\* Any sequence of collect, report and reset calls on one Timer, as its
\* callers (TimerCursor, TimerConnection, the adapters, the runner) may
\* make them.  The benchmark itself stays idle.
TimerInit ==
    /\ backend = "dolt" /\ workload = "insert_only"
    /\ tree_depth = 0 /\ degree = 0 /\ insert_per_branch = 0
    /\ pc = "timer_api"
    /\ tree = <<>> /\ total_branches = 0
    /\ current_level_nodes = <<>> /\ qi = 0 /\ ci = 0
    /\ current_visited = 0
    /\ conn = RootName
    /\ branches = {RootName}
    /\ fork_of = (RootName :> RootName)
    /\ rows = (RootName :> {})
    /\ pks_loaded = FALSE /\ all_pks = {}
    /\ datagen_loaded = FALSE
    /\ conn_open = TRUE
    /\ attempts = 0 /\ inserted_count = 0
    /\ obs = Obs0
    /\ timer = Timer0
    /\ tobs = TObs0
    /\ sampling_rate = RateDen
    /\ max_sample_size = 1
    /\ updatable_columns = 1
    /\ sort_idx = -1
    /\ pk_list = <<>>
    /\ skewed_indices = <<>>
    /\ ri = 0

TimerCollect ==
    /\ pc = "timer_api"
    /\ tobs.tick < MaxSamples
    /\ \E path \in Paths, tag \in Tags :
         set_recorder(collect(st_now, path, tag))
    /\ UNCHANGED <<config, conn_open, pc, travers, store, cache, insloop, obs,
                   readloop>>

TimerReport ==
    /\ pc = "timer_api"
    /\ \E path \in Paths, tag \in Tags :
         LET r == report(timer, path, tag)
         IN /\ timer' = r.timer
            /\ tobs' = [tobs EXCEPT
                          !.last = [path |-> path, tag |-> tag,
                                    value |-> r.value],
                          !.before = timer]
    /\ UNCHANGED <<config, conn_open, pc, travers, store, cache, insloop, obs,
                   readloop>>

TimerReset ==
    /\ pc = "timer_api"
    /\ tobs.resets < MaxResets
    /\ timer' = reset(timer)
    /\ tobs' = [tobs EXCEPT !.log = <<>>, !.reset_tick = tobs.tick,
                            !.resets = @ + 1, !.last = NoReport]
    /\ UNCHANGED <<config, conn_open, pc, travers, store, cache, insloop, obs,
                   readloop>>

TimerNext == TimerCollect \/ TimerReport \/ TimerReset

SpecTimer == TimerInit /\ [][TimerNext]_vars

\* ===================================================================== claims
RECURSIVE pow(_, _)
pow(b, e) == IF e = 0 THEN 1 ELSE b * pow(b, e - 1)

RECURSIVE geometric_sum(_, _)
geometric_sum(deg, depth) ==
    IF depth = 0 THEN 1 ELSE geometric_sum(deg, depth - 1) + pow(deg, depth)

range(q) == {q[i] : i \in DOMAIN q}
no_duplicates(q) == \A i, j \in DOMAIN q : i # j => q[i] # q[j]
traversal_started == workload = "branch_insert" /\ pc \notin {"setup", "start"}
traversal_ended == workload = "branch_insert" /\ pc \in {"done", "aborted"}

\* C1: when every branch creation succeeds, a finished traversal has visited
\* every node of the tree exactly once and has requested one branch creation
\* per non-root node, on both backends.
C1_FullTraversal ==
    (workload = "branch_insert" /\ pc = "done"
     /\ \A i \in DOMAIN obs.requested : obs.requested[i].accepted)
    => /\ current_visited = total_branches
       /\ range(obs.visit_order) = 1..Len(tree)
       /\ no_duplicates(obs.visit_order)
       /\ Len(obs.requested) = total_branches - 1

\* the node and all its ancestors below the root were created in the backend
RECURSIVE path_created(_)
path_created(n) ==
    n = 1 \/ (n \in obs.created /\ path_created(tree[n].parent))

\* n is d or a descendant of d
RECURSIVE under(_, _)
under(n, d) == n = d \/ (n > 1 /\ under(tree[n].parent, d))

\* C2: a child whose creation fails is not queued, neither it nor a
\* descendant is connected to, written to or requested, the creation is not
\* retried, and every other node that was created together with all its
\* ancestors is still visited when the traversal ends.
C2_Pruning ==
    /\ \A i \in DOMAIN obs.requested :
         LET r == obs.requested[i]
         IN ~r.accepted =>
              /\ r.child \notin range(current_level_nodes)
              /\ \A n \in range(obs.connects) : ~under(n, r.child)
              /\ \A k \in DOMAIN obs.write_log :
                    obs.write_log[k].node = 0
                    \/ ~under(obs.write_log[k].node, r.child)
              /\ \A j \in DOMAIN obs.requested :
                    j # i => ~under(obs.requested[j].child, r.child)
    /\ (traversal_ended /\ obs.error \in {"none", "create"})
       => \A n \in 1..Len(tree) :
             path_created(n) => n \in range(obs.visit_order)

C4_CreateResult ==
    \A i \in DOMAIN obs.requested :
        obs.requested[i].result =
            IF obs.requested[i].accepted THEN "True" ELSE "False"

\* C5: no written row had its key in the cached population when it was
\* accepted; the written keys are pairwise distinct and none was returned by
\* the initial key scan.
C5_UniqueWrites ==
    /\ \A i \in DOMAIN obs.write_log :
         /\ ~obs.write_log[i].cached
         /\ obs.write_log[i].key \notin obs.scanned
    /\ \A i, j \in DOMAIN obs.write_log :
         i # j => obs.write_log[i].key # obs.write_log[j].key

C5_Witness ==
    /\ Len(obs.write_log) >= 2
    /\ obs.scanned # {}
    /\ attempts > inserted_count

\* C6: an insert of n rows makes at most 5n generation attempts, writes at
\* most n rows, makes no attempt once n rows are accepted, and for n = 0
\* makes no attempt and writes nothing.
C6_Budget ==
    /\ attempts <= 5 * insert_per_branch
    /\ inserted_count <= insert_per_branch
    /\ Len(obs.write_log) <= insert_per_branch
    /\ obs.gen_total = attempts
    /\ obs.late_gen = 0
    /\ insert_per_branch = 0 => attempts = 0 /\ obs.write_log = <<>>

C6_Witness ==
    /\ obs.insert_returns = 1
    /\ insert_per_branch >= 2
    /\ inserted_count = insert_per_branch
    /\ attempts > inserted_count
    /\ attempts < 5 * insert_per_branch

\* the rows the backend has written for the inserts so far
rows_written ==
    Cardinality({i \in DOMAIN obs.write_log : obs.write_log[i].written})

C7_Witness ==
    /\ obs.insert_returns = 1
    /\ insert_per_branch = 2
    /\ attempts = 10
    /\ Len(obs.write_log) = 1
    /\ Cardinality(Keys \ obs.scanned) = 1
    /\ obs.warnings = 1
    /\ obs.commits = 1
    /\ pc # "aborted"

\* C8: while a branch+insert traversal runs, once the key population is
\* loaded it equals the keys of the rows of the insert table on the branch
\* the connection is on.
C8_CacheMirrorsBranch ==
    (workload = "branch_insert" /\ pks_loaded /\ obs.error # "write")
    => all_pks = rows[conn]

C8_Witness ==
    /\ workload = "branch_insert"
    /\ pks_loaded
    /\ conn # RootName
    /\ Len(obs.write_log) >= 1
    /\ all_pks = rows[conn]

\* C9: no report is produced before the traversal is over; a traversal that
\* finishes without shortfall has issued insert_per_branch row writes for each
\* visited node, each on that node's branch, and has reported once.
C9_WritesThenReport ==
    /\ (workload = "branch_insert" /\ pc # "done") => obs.reports = 0
    /\ (workload = "branch_insert" /\ pc = "done") => obs.reports = 1
    /\ (workload = "branch_insert" /\ pc = "done" /\ obs.warnings = 0
        /\ insert_per_branch > 0)
       => /\ \A n \in range(obs.visit_order) :
               Cardinality({k \in DOMAIN obs.write_log :
                              /\ obs.write_log[k].node = n
                              /\ obs.write_log[k].branch = tree[n].name})
                 = insert_per_branch
          /\ Len(obs.write_log) = insert_per_branch * Len(obs.visit_order)

C9_Witness ==
    /\ workload = "branch_insert"
    /\ pc = "done"
    /\ insert_per_branch = 2
    /\ Len(obs.write_log) = 2
    /\ Len(obs.requested) >= 1
    /\ obs.reports = 1

\* C10: for degree >= 1 the count returned by build_branch_tree is the number
\* of nodes of the returned tree and equals 1 + degree + ... + degree^depth.
C10_NodeCount ==
    (traversal_started /\ degree >= 1)
    => /\ total_branches = Len(tree)
       /\ total_branches = geometric_sum(degree, tree_depth)

C10_Witness ==
    /\ traversal_started
    /\ degree = 2
    /\ tree_depth = 2
    /\ total_branches = 7

tree_built == tree # <<>>

\* number of edges between a node and the root
RECURSIVE depth_of(_)
depth_of(n) == IF tree[n].parent = 0 THEN 0 ELSE 1 + depth_of(tree[n].parent)

level_nodes(d) == {n \in 1..Len(tree) : depth_of(n) = d}

\* 0-based position of a node among the nodes of its level, in creation order
level_pos(n) == Cardinality({m \in level_nodes(depth_of(n)) : m < n})

\* C11: level d (1..depth) holds degree^d nodes, every node of level d-1 has
\* exactly degree children, the i-th child (0-based) of the parent at level
\* position p is named branch_d{d}_n{p*degree + i + 1}, the nodes of the last
\* level have no child, and depth = 0 or degree = 0 gives the root alone.
C11_LevelsAndNames ==
    tree_built =>
      /\ \A d \in 1..tree_depth :
            Cardinality(level_nodes(d)) = pow(degree, d)
      /\ \A n \in 1..Len(tree) :
            IF depth_of(n) < tree_depth
            THEN /\ Len(children(tree, n)) = degree
                 /\ \A i \in 1..degree :
                      tree[children(tree, n)[i]].name =
                        <<depth_of(n) + 1, level_pos(n) * degree + (i - 1) + 1>>
            ELSE children(tree, n) = <<>>
      /\ (tree_depth = 0 \/ degree = 0) => Len(tree) = 1

C11_Witness ==
    /\ tree_built
    /\ tree_depth = 2
    /\ degree = 2
    /\ Len(tree) = 7
    /\ tree[7].name = <<2, 4>>
    /\ tree[7].parent = 3

\* C12: the node names of a build are pairwise distinct, the root has no
\* parent and every other node has one parent, created before it.
C12_UniqueNamesRootedTree ==
    tree_built =>
      /\ \A i, j \in 1..Len(tree) : i # j => tree[i].name # tree[j].name
      /\ tree[1].parent = 0
      /\ \A n \in 2..Len(tree) : tree[n].parent \in 1..(n - 1)

C12_Witness ==
    /\ tree_built
    /\ tree_depth = 2
    /\ degree = 2
    /\ Cardinality({tree[n].name : n \in 1..Len(tree)}) = 7

\* The durations passed to collect since the last reset, for one path and
\* one tag ("" selects every call on the path), in call order
RECURSIVE collected(_, _, _)
collected(log, path, tag) ==
    IF log = <<>> THEN <<>>
    ELSE LET e == Head(log)
             rest == collected(Tail(log), path, tag)
         IN IF e.path = path /\ (tag = "" \/ e.tag = tag)
            THEN <<e.d>> \o rest ELSE rest

unlabeled(tm, path) ==
    IF path = "cursor" THEN tm.each_cursor_elapsed
    ELSE tm.each_connection_elapsed

by_tag(tm, path) ==
    IF path = "cursor" THEN tm.cursor_elapsed_by_tag
    ELSE tm.connection_elapsed_by_tag

\* C16: after any sequence of collects since the last reset, on each path
\* the unlabeled bucket holds every collected duration in collection order,
\* and the bucket of each non-empty tag holds exactly the durations collected
\* under that tag, in order; a collect with the empty tag touches no tag
\* bucket (no bucket exists for a tag that was never collected, none for "").
C16_Buckets ==
    \A path \in Paths :
       /\ unlabeled(timer, path) = collected(tobs.log, path, "")
       /\ "" \notin DOMAIN by_tag(timer, path)
       /\ \A tag \in Tags \ {""} :
            /\ tag \in DOMAIN by_tag(timer, path)
                 <=> collected(tobs.log, path, tag) # <<>>
            /\ tag \in DOMAIN by_tag(timer, path)
                 => by_tag(timer, path)[tag] = collected(tobs.log, path, tag)

C16_Witness ==
    /\ pc = "timer_api"
    /\ Len(tobs.log) = 3
    /\ tobs.log[1].path = "cursor" /\ tobs.log[1].tag = "execute"
    /\ tobs.log[2].path = "cursor" /\ tobs.log[2].tag = ""
    /\ tobs.log[3].path = "cursor" /\ tobs.log[3].tag = "execute"
    /\ timer.each_cursor_elapsed = <<1, 2, 3>>
    /\ timer.cursor_elapsed_by_tag["execute"] = <<1, 3>>

\* C17: a report for a tag with no recorded sample returns the empty
\* sequence and leaves the recorder as it was (no bucket is created); a
\* report without a tag returns the unlabeled bucket of its path.
C17_ReportMissingTag ==
    /\ \A path \in Paths, tag \in Tags :
         LET r == report(timer, path, tag)
         IN /\ r.timer = timer
            /\ (tag # "" /\ collected(tobs.log, path, tag) = <<>>)
                 => r.value = <<>> /\ tag \notin DOMAIN by_tag(r.timer, path)
            /\ tag = "" => r.value = unlabeled(timer, path)
    /\ tobs.last.path # "none" =>
         /\ timer = tobs.before
         /\ (tobs.last.tag # ""
              /\ collected(tobs.log, tobs.last.path, tobs.last.tag) = <<>>)
             => tobs.last.value = <<>>
         /\ tobs.last.tag = ""
             => tobs.last.value = unlabeled(timer, tobs.last.path)

C17_Witness ==
    /\ pc = "timer_api"
    /\ tobs.last.path = "cursor" /\ tobs.last.tag = "commit"
    /\ tobs.last.value = <<>>
    /\ collected(tobs.log, "cursor", "execute") # <<>>
    /\ collected(tobs.log, "connection", "commit") # <<>>
    /\ "commit" \notin DOMAIN timer.cursor_elapsed_by_tag

\* C18: after a reset, and until the next collect, a report returns the
\* empty sequence for every tag and for the unlabeled bucket on both paths;
\* and at any time the sequences a report returns contain no sample that was
\* collected before the last reset.
C18_ResetClears ==
    \A path \in Paths, tag \in Tags :
       LET v == report(timer, path, tag).value
       IN /\ (tobs.resets > 0 /\ tobs.log = <<>>) => v = <<>>
          /\ \A i \in DOMAIN v : v[i] > tobs.reset_tick
          /\ (tobs.last.path = path /\ tobs.last.tag = tag)
               => tobs.last.value = v

C18_Witness ==
    /\ pc = "timer_api"
    /\ tobs.resets = 1 /\ tobs.reset_tick = 2
    /\ Len(tobs.log) = 1 /\ tobs.log[1].tag = "execute"
    /\ tobs.log[1].path = "cursor"
    /\ tobs.last.path = "cursor" /\ tobs.last.tag = "execute"
    /\ tobs.last.value = <<3>>

\* C13: for a population of at least one key, a rate in (0, 1] and a cap of
\* at least 1, get_sampled_indices returns exactly
\* max(1, min(cap, floor(population_size * rate))) indices: at least one,
\* never more than the population size, never more than the cap.
C13_SampleSize ==
    \A i \in DOMAIN obs.sampler :
       LET c == obs.sampler[i]
           k == Len(c.indices)
           floor_of_product == (c.population_size * c.rate) \div RateDen
       IN (c.population_size > 0 /\ 0 < c.rate /\ c.rate <= RateDen
           /\ c.cap >= 1)
          => /\ k = (IF (IF c.cap < floor_of_product THEN c.cap
                         ELSE floor_of_product) < 1
                     THEN 1
                     ELSE IF c.cap < floor_of_product THEN c.cap
                          ELSE floor_of_product)
             /\ k >= 1
             /\ k <= c.population_size
             /\ k <= c.cap
             /\ (pc \in {"read_loop", "update_loop"}
                 => Len(skewed_indices) = k)

C13_Witness ==
    \E i \in DOMAIN obs.sampler :
       /\ obs.sampler[i].population_size = 3
       /\ obs.sampler[i].rate = RateDen
       /\ obs.sampler[i].cap = 2
       /\ Len(obs.sampler[i].indices) = 2

\* C14: each index get_sampled_indices returns is
\* floor(value * (population_size - 1)) for the value the distribution
\* returned at the same position, lies in 0 .. population_size - 1, and
\* equal indices are all kept (one index per value).
C14_ScaledIndices ==
    \A i \in DOMAIN obs.sampler :
       LET c == obs.sampler[i]
       IN /\ Len(c.indices) = Len(c.raw)
          /\ \A j \in DOMAIN c.indices :
               /\ c.indices[j] * DistDen <= c.raw[j] * (c.population_size - 1)
               /\ c.raw[j] * (c.population_size - 1)
                    < (c.indices[j] + 1) * DistDen
               /\ 0 <= c.indices[j]
               /\ c.indices[j] <= c.population_size - 1

C14_Witness ==
    \E i \in DOMAIN obs.sampler :
       /\ obs.sampler[i].population_size = 2
       /\ obs.sampler[i].raw = <<1, 1>>
       /\ obs.sampler[i].indices = <<0, 0>>
       /\ pc = "read_loop"

\* C15: with a rate <= 0 or > 1 get_sampled_indices raises before it calls
\* the distribution, and a point read or an update reached with such a rate
\* issues no read statement, no update statement and no commit.
C15_InvalidRate ==
    (sampling_rate <= 0 \/ sampling_rate > RateDen)
    => /\ obs.dist_calls = 0
       /\ obs.sampler = <<>>
       /\ obs.statements = <<>>
       /\ pk_list # <<>> => pc = "aborted" /\ obs.error = "sampling"
       /\ pc \notin {"read_loop", "update_loop", "update_commit"}

C15_Witness ==
    /\ sampling_rate > RateDen
    /\ workload = "update"
    /\ pk_list # <<>>
    /\ pc = "aborted"
    /\ obs.error = "sampling"
    /\ obs.statements = <<>>

\* C19: a read phase run against a table whose key population is empty
\* issues no read and completes its report without an error, with zero
\* samples and an average of 0.0.
C19_EmptyReadPhase ==
    (workload \in {"read_no_setup", "branch_insert_read"}
     /\ pks_loaded /\ all_pks = {}
     /\ pc \in {"done", "aborted"} /\ obs.error \notin {"create", "write"})
    => /\ obs.statements = <<>>
       /\ pc = "done"
       /\ obs.error = "none"
       /\ obs.reported # <<>>
       /\ obs.reported[Len(obs.reported)].phase = "read"
       /\ obs.reported[Len(obs.reported)].execute = <<>>
       /\ average_is_zero(obs.reported[Len(obs.reported)].execute)

\* C20: a commit that fails at the end of an insert batch, of an update
\* batch or of a branch creation is caught: the operation returns normally
\* and the run goes on, whatever the backend.
C20_CommitFailureCaught ==
    /\ \A i \in DOMAIN obs.requested :
         ~obs.requested[i].commit_ok => obs.requested[i].result # "raise"
    /\ obs.commit_failures <= obs.insert_returns

\* C21: a row write, an update or a point read that the backend fails to
\* execute raises to the caller and ends the phase: it is the last statement
\* of the phase, and no statement that returned normally (with an empty
\* result) was one the backend failed.
C21_FailurePropagates ==
    /\ \A i \in DOMAIN obs.statements :
         LET s == obs.statements[i]
         IN (s.kind \in {"read", "update"} /\ ~s.ok)
            => /\ s.raised
               /\ i = Len(obs.statements)
               /\ pc = "aborted"
    /\ \A i \in DOMAIN obs.write_log : obs.write_log[i].written
    /\ obs.error \in {"write", "read", "update"} => pc = "aborted"

\* number of positions of the sequence q that hold x
occurrences(q, x) == Cardinality({i \in DOMAIN q : q[i] = x})

\* C22: sort_population returns a permutation of its input in ascending
\* order of the value at the key index, and sorting the result again by the
\* same index gives the identical sequence.
C22_SortIdempotent ==
    /\ \A n \in DOMAIN obs.sorts :
         LET c == obs.sorts[n]
         IN /\ Len(c.output) = Len(c.input)
            /\ \A x \in PkTuples :
                 occurrences(c.output, x) = occurrences(c.input, x)
            /\ \A i, j \in DOMAIN c.output :
                 i < j => field(c.output[i], c.idx) <= field(c.output[j], c.idx)
            /\ sort_population(c.output, c.idx) = c.output
    /\ \A n \in DOMAIN obs.sorts :
         (n > 1 /\ obs.sorts[n].input = obs.sorts[n - 1].output)
         => obs.sorts[n].output = obs.sorts[n - 1].output

C22_Witness ==
    /\ pc = "sort_api"
    /\ Len(obs.sorts) = 2
    /\ obs.sorts[1].idx = 0
    /\ obs.sorts[1].input = << <<2, 1>>, <<1, 2>>, <<1, 1>> >>
    /\ obs.sorts[1].output = << <<1, 2>>, <<1, 1>>, <<2, 1>> >>
    /\ obs.sorts[2].input = obs.sorts[1].output
    /\ obs.sorts[2].output = obs.sorts[1].output

\* natural (lexicographic) order of two tuples of the same length
RECURSIVE tuple_leq(_, _)
tuple_leq(a, b) ==
    IF a = <<>> THEN TRUE
    ELSE IF Head(a) # Head(b) THEN Head(a) < Head(b)
    ELSE tuple_leq(Tail(a), Tail(b))

\* C23: the result of sort_population depends only on the tuples and the key
\* index: tuples with equal values at the index come in the natural order of
\* their fields, so two populations holding the same tuples in different
\* orders sort to the same sequence.
C23_SortDeterministic ==
    /\ \A n \in DOMAIN obs.sorts :
         LET c == obs.sorts[n]
         IN \A i, j \in DOMAIN c.output :
              (i < j /\ field(c.output[i], c.idx) = field(c.output[j], c.idx))
              => tuple_leq(c.output[i], c.output[j])
    /\ \A m, n \in DOMAIN obs.sorts :
         (/\ obs.sorts[m].idx = obs.sorts[n].idx
          /\ \A x \in PkTuples : occurrences(obs.sorts[m].input, x)
                                   = occurrences(obs.sorts[n].input, x))
         => obs.sorts[m].output = obs.sorts[n].output

\* C24: every child creation of a traversal is requested while the node
\* being visited is the child's tree parent and the connection is on that
\* parent's branch, and every branch that is created is forked from the
\* branch of its tree parent, not from a sibling created before it.
C24_ForkedFromParent ==
    \A i \in DOMAIN obs.requested :
       LET r == obs.requested[i]
           parent == tree[r.child].parent
       IN /\ r.during = parent
          /\ r.on = tree[parent].name
          /\ r.accepted => fork_of[tree[r.child].name] = tree[parent].name

\* the positions of obs.statements that hold a statement of the given kind
of_kind(kind) == {i \in DOMAIN obs.statements : obs.statements[i].kind = kind}

\* What C25 says of the inserts: one commit call per completed invocation,
\* none while the rows of an invocation are being written
insert_commits_once ==
    /\ obs.commits = obs.insert_returns
    /\ pc = "insert_loop" => obs.commits = obs.insert_calls - 1
    /\ \A i \in DOMAIN obs.write_log :
         obs.write_log[i].commits_before = obs.write_log[i].call - 1

\* What C25 says of an update that has issued a statement: one commit call,
\* behind every update statement
update_commits_once ==
    /\ Cardinality(of_kind("commit")) = 1
    /\ obs.statements[Len(obs.statements)].kind = "commit"

\* C25 as stated: every insert invocation that completes issues exactly one
\* commit call, after its last row write and never between row writes; every
\* update invocation that issues at least one update statement issues
\* exactly one commit call, after its last update statement.
C25_OneCommit_AsStated ==
    /\ insert_commits_once
    /\ (workload = "update" /\ of_kind("update") # {}
        /\ pc \in {"update_report", "done", "aborted"})
       => update_commits_once

\* C25 amended: the same, for every update invocation that completes after
\* issuing at least one update statement (an update ended by a failing
\* statement issues no commit); no commit is issued while the update loop
\* runs.
C25_OneCommit ==
    /\ insert_commits_once
    /\ (workload = "update" /\ of_kind("update") # {}
        /\ pc \in {"update_report", "done"})
       => update_commits_once
    /\ pc = "update_loop" => of_kind("commit") = {}

C25_Witness ==
    /\ workload = "update"
    /\ pc = "done"
    /\ Len(obs.statements) = 3
    /\ obs.statements[1].kind = "update"
    /\ obs.statements[2].kind = "update"
    /\ obs.statements[3].kind = "commit"

\* the durations a report has read from the Timer
reported_values(e) ==
    IF e.phase = "read" THEN range(e.execute) \cup range(e.fetchall)
    ELSE IF e.phase = "update" THEN range(e.execute)
    ELSE range(e.execute) \cup range(e.commit)

\* the number of collect calls made when the phase of the k-th report began
phase_start(k) ==
    IF k = 1 THEN obs.setup_tick ELSE obs.reported[k - 1].at

\* C26: every duration reported at the end of a phase was collected during
\* that phase: none was collected during setup or preload, none during an
\* earlier phase.
C26_NoBleeding ==
    \A k \in DOMAIN obs.reported :
       obs.reported[k].printed
       => \A d \in reported_values(obs.reported[k]) :
             phase_start(k) < d /\ d <= obs.reported[k].at

\* C27: an operation for which timing is not requested (the connect of the
\* traversal, an insert batch with timing off, a branch creation with timing
\* off) appends no duration to any bucket, its commit included.
C27_UntimedCollectsNothing ==
    /\ \A i \in DOMAIN obs.requested :
         ~obs.requested[i].timed => obs.requested[i].samples = 0
    /\ \A i \in DOMAIN obs.batches :
         ~obs.batches[i].timed => obs.batches[i].samples = 0

\* C28: the query path and the commit path are recorded independently: a
\* commit appends nothing to the query-path buckets, so a timed insert
\* batch of m accepted rows leaves exactly m samples under "execute", and a
\* query appends nothing to the commit-path buckets.
C28_PathsIndependent ==
    /\ \A i \in DOMAIN obs.batches :
         obs.batches[i].timed => obs.batches[i].execute = obs.batches[i].rows
    /\ (pc = "insert_loop" /\ obs.insert_calls = 1)
       => Len(collected_by(tobs.log, "connection", "commit", obs.batch_tick))
            = 0
\* pcs of the point-read and update steps
ReadUpdatePcs ==
    {"read", "read_loop", "read_report",
     "update_loop", "update_commit", "update_report"}

is_read_or_update_step ==
    \/ pc \in ReadUpdatePcs
    \/ pc = "start" /\ workload \in {"read_no_setup", "update"}

C30_LoadOnce ==
    /\ obs.key_scans <= 1
    /\ obs.ddl_fetches <= 1
    /\ \A i \in DOMAIN obs.loads :
          obs.loads[i].present =>
              obs.loads[i].calls = 0 /\ obs.loads[i].same

\* an empty population is cached, the table at hand holds rows, and both
\* caches were asked again
C30_Witness ==
    /\ pc = "cache_api"
    /\ pks_loaded /\ all_pks = {} /\ rows[conn] # {}
    /\ \E i \in DOMAIN obs.loads :
          /\ obs.loads[i].cache = "pks"
          /\ obs.loads[i].present /\ obs.loads[i].empty
          /\ i > 1 /\ obs.loads[i - 1].cache = "datagen"
          /\ obs.loads[i - 1].present

\* keys whose row write completed successfully
written_keys ==
    {obs.write_log[i].key :
        i \in {j \in DOMAIN obs.write_log : obs.write_log[j].written}}

\* C31: a key is in the cached population only if the initial key scan
\* returned it or its row write completed successfully; so the key of a
\* failed row write is not cached afterwards
C31_FailedWriteNotCached ==
    pks_loaded => all_pks \subseteq (obs.scanned \cup written_keys)

\* C32: in the branch-insert-read workload every point read issued after
\* the traversal is keyed by a primary key whose row exists on the branch
\* the connection is on when the read is issued
C32_ReadsExistingRows ==
    workload = "branch_insert_read" =>
        \A i \in DOMAIN obs.statements :
            obs.statements[i].kind = "read" => obs.statements[i].present

\* the read statements issued so far, in the order of issue
reads_issued ==
    SelectSeq(obs.statements, LAMBDA s : s.kind = "read")

\* the key at a 0-based index of the cached population in ascending order
key_at(index) ==
    CHOOSE k \in all_pks : Cardinality({x \in all_pks : x < k}) = index

read_invoked ==
    /\ workload \in {"read_no_setup", "branch_insert_read"}
    /\ pc \in {"read_loop", "read_report", "done", "aborted"}
    /\ obs.error \notin {"write", "create", "connect", "commit"}
    /\ pks_loaded

\* C33: on a non-empty population the reads issued by point_read are, in
\* order, the keys at the sampled indices of the sorted population, one read
\* per index with duplicates kept, and all of them once the read loop is
\* through; on an empty population there is no read, no sampler call and no
\* distribution call
C33_OneReadPerIndex ==
    /\ (read_invoked /\ all_pks # {}) =>
          /\ Len(reads_issued) <= Len(skewed_indices)
          /\ \A i \in DOMAIN reads_issued :
                reads_issued[i].key = key_at(skewed_indices[i])
          /\ pc \in {"read_report", "done"} =>
                Len(reads_issued) = Len(skewed_indices)
    /\ (read_invoked /\ all_pks = {}) =>
          /\ reads_issued = <<>>
          /\ obs.dist_calls = 0
          /\ obs.sampler = <<>>

\* a read loop that went through two samples of the same index, which is
\* not the first of a population of several keys
C33_Witness ==
    /\ workload = "read_no_setup"
    /\ pc = "read_report"
    /\ Cardinality(all_pks) >= 2
    /\ Len(skewed_indices) = 2
    /\ skewed_indices[1] = skewed_indices[2]
    /\ skewed_indices[1] > 0
    /\ Len(reads_issued) = 2

\* the update statements issued so far
updates_issued ==
    SelectSeq(obs.statements, LAMBDA s : s.kind = "update")

update_returned == workload = "update" /\ pc \in {"update_report", "done"}

\* C34: each update statement sets between 1 and min(3, number of non-key
\* columns) distinct columns, none of them a key column, and its WHERE
\* clause is the full primary key with the values of the sampled cached key;
\* an update of a table without non-key columns or with an empty population
\* issues no update statement and no commit
C34_UpdateStatement ==
    /\ \A i \in DOMAIN updates_issued :
         LET s == updates_issued[i] IN
          /\ 1 <= Cardinality(s.set)
          /\ Cardinality(s.set) <= min2(3, updatable_columns)
          /\ s.set \subseteq 1..updatable_columns
          /\ s.set \cap PkColumns = {}
          /\ s.where = PkColumns
          /\ s.key \in all_pks
          /\ s.key = key_at(skewed_indices[i])
    /\ (update_returned /\ (updatable_columns = 0 \/ all_pks = {})) =>
          of_kind("update") = {} /\ of_kind("commit") = {}

\* an update of a table with four non-key columns that set three of them
\* in one statement and went on to its commit
C34_Witness ==
    /\ workload = "update"
    /\ pc = "done"
    /\ updatable_columns = 4
    /\ of_kind("commit") # {}
    /\ \E i \in DOMAIN updates_issued :
          Cardinality(updates_issued[i].set) = 3

\* a table without non-key columns: the update returned at once
C34_WitnessNoColumns ==
    /\ workload = "update"
    /\ pc = "done"
    /\ updatable_columns = 0
    /\ rows[conn] # {}

\* C35: the closing report of a branch traversal states the number of nodes
\* visited and, with it, the intended node count of the tree
C35_ReportVisitedAndIntended ==
    \A i \in DOMAIN obs.final_lines :
        LET line == obs.final_lines[i] IN
         /\ line.visited = Len(obs.visit_order)
         /\ "intended" \in DOMAIN line
         /\ line.intended = total_branches

\* C36: when a run that completed setup has terminated, by success or by a
\* fatal error of a benchmark phase, the active connection has been closed,
\* also when the deletion of the database failed
C36_ConnectionClosedAtExit ==
    pc = "exited" => ~conn_open

\* the creations that returned a true result so far
successful_creations ==
    Cardinality({i \in DOMAIN obs.requested :
                    obs.requested[i].result = "True"})

\* C37: whatever the tree and whatever the creations return, the traversal
\* loop comes to its end (it reports, or an exception leaves it), and it
\* never visits more nodes than the tree has
C37_LoopTerminates ==
    /\ <>(pc \in {"done", "aborted"})
    /\ [](traversal_started => current_visited <= total_branches)

\* a traversal of the seven-node tree that ended after both leaves under
\* one child were pruned by failed creations
C37_Witness ==
    /\ pc = "done"
    /\ total_branches = 7
    /\ current_visited = 5
    /\ Len(obs.requested) = 6
    /\ \E i \in DOMAIN obs.requested : obs.requested[i].result = "None"

\* C38: during a traversal the queue holds one node more than creations
\* have returned success, and no node twice; when the loop is through, the
\* visited count is one more than the successful creations
C38_QueueCountsSuccesses ==
    traversal_started =>
        /\ Len(current_level_nodes) = 1 + successful_creations
        /\ no_duplicates(current_level_nodes)
        /\ pc \in {"report", "done"} =>
              current_visited = 1 + successful_creations

\* in the middle of a traversal: three nodes queued after two successes and
\* one failure, the loop still at work on the second level
C38_Witness ==
    /\ pc = "children"
    /\ workload = "branch_insert"
    /\ qi = 2
    /\ Len(current_level_nodes) = 3
    /\ successful_creations = 2
    /\ Len(obs.requested) = 3
====
